---- MODULE Spec2Model ----
(***************************************************************************)
(* The BacktestDemo component: its state (loading, data, error), the run   *)
(* action that fetches a BacktestResponse, and the two values memoised     *)
(* from data, stats and chart.                                             *)
(*                                                                         *)
(* Numbers.  The inputs (equity values, quantities, prices, fees) are      *)
(* integers.  A derived JavaScript number is the record [n, d]: the exact  *)
(* rational n/d in lowest terms with d > 0, or, with d = 0, one of the     *)
(* non-finite values NaN (n = 0), +Infinity (n = 1), -Infinity (n = -1).   *)
(* Arithmetic is exact: the rounding of IEEE doubles is not modelled, and  *)
(* the sign of zero is not kept (x / 0 is +Infinity or -Infinity by the    *)
(* sign of x).                                                             *)
(*                                                                         *)
(* Indexes.  Sequences are 1-based: the code's trades[i] is trades[i + 1]  *)
(* here, and the code's loop test  j < trades.length  is  j <= Len(trades).*)
(***************************************************************************)
EXTENDS Integers, Sequences, FiniteSets, TLC

VARIABLES loading, data, error, stats, chart, scan, pending,
          first, stored,
          isLeftCollapsed, isRightCollapsed, isBottomCollapsed,
          leftSidebarWidth, rightSidebarWidth,
          savedLeft, savedRight, effects, lastAction

(* BacktestDemo: its state, its memos, the requests in flight, and two     *)
(* history variables: first, the first response received with the memos    *)
(* computed on it, whether other responses were received after it and      *)
(* whether it was received again after those; and stored, what the run in  *)
(* progress (or the last run) has stored.                                  *)
demoVars == <<loading, data, error, stats, chart, scan, pending, first, stored>>

(* LayoutContent: its state, the flags last handed to saveLeftSidebarState *)
(* and saveRightSidebarState, the effects of the last render not yet run,  *)
(* and the handler that ran last.                                          *)
layoutVars ==
  <<isLeftCollapsed, isRightCollapsed, isBottomCollapsed,
    leftSidebarWidth, rightSidebarWidth, savedLeft, savedRight, effects, lastAction>>

vars == <<demoVars, layoutVars>>

(* null, for data, error and stats *)
NULL == [null |-> TRUE]

---------------------------------------------------------------------------
(* JavaScript numbers *)

Abs(a) == IF a < 0 THEN -a ELSE a

Sign(a) == IF a > 0 THEN 1 ELSE IF a < 0 THEN -1 ELSE 0

RECURSIVE GCD(_, _)
GCD(a, b) == IF b = 0 THEN a ELSE GCD(b, a % b)

(* n/d in lowest terms, d >= 0 *)
Num(n, d) ==
  IF d = 0 THEN [n |-> Sign(n), d |-> 0]
  ELSE LET g == GCD(Abs(n), d) IN [n |-> n \div g, d |-> d \div g]

FromInt(a) == [n |-> a, d |-> 1]

NaN == [n |-> 0, d |-> 0]

PosInf == [n |-> 1, d |-> 0]

NegInf == [n |-> -1, d |-> 0]

IsNaN(x) == x.d = 0 /\ x.n = 0

IsFinite(x) == x.d > 0

(* x + y *)
Add(x, y) ==
  IF IsNaN(x) \/ IsNaN(y) THEN NaN
  ELSE IF x.d = 0 /\ y.d = 0 THEN (IF x.n = y.n THEN x ELSE NaN)
  ELSE IF x.d = 0 THEN x
  ELSE IF y.d = 0 THEN y
  ELSE Num(x.n * y.d + y.n * x.d, x.d * y.d)

Neg(x) == [n |-> -x.n, d |-> x.d]

(* x - y *)
Sub(x, y) == Add(x, Neg(y))

(* x * y: 0 * Infinity is NaN *)
Mul(x, y) == Num(x.n * y.n, x.d * y.d)

(* 1 / y: 1 / 0 is Infinity, 1 / Infinity is 0 *)
Recip(y) ==
  IF IsNaN(y) THEN NaN
  ELSE IF y.d = 0 THEN FromInt(0)
  ELSE IF y.n = 0 THEN PosInf
  ELSE Num(Sign(y.n) * y.d, Abs(y.n))

(* x / y: 0 / 0 is NaN, x / 0 is Infinity with the sign of x *)
Div(x, y) == Mul(x, Recip(y))

(* x > y: false when either is NaN *)
Gt(x, y) ==
  IF IsNaN(x) \/ IsNaN(y) THEN FALSE
  ELSE IF x.d = 0 /\ y.d = 0 THEN x.n > y.n
  ELSE x.n * y.d > y.n * x.d

(* x || 1: 0 and NaN are falsy *)
OrOne(x) == IF IsNaN(x) \/ x = FromInt(0) THEN FromInt(1) ELSE x

(* The number the string x.toFixed(1) denotes: x rounded to one decimal,  *)
(* a tie taking the larger magnitude; NaN and the infinities print as     *)
(* such.                                                                   *)
ToFixed1(x) ==
  IF x.d = 0 THEN x
  ELSE LET t == (2 * 10 * Abs(x.n) + x.d) \div (2 * x.d)
       IN Num(Sign(x.n) * t, 10)

---------------------------------------------------------------------------
(* stats: the statistics memoised from data *)

Min2(a, b) == IF a < b THEN a ELSE b

(* eq.length < 2 *)
StatsInsufficientEmptyOnly(eq) == Len(eq) < 1

StatsInsufficient(eq) == Len(eq) < 2

(* (endV / startV - 1) * 100 *)
TotalReturnGuarded(startV, endV) ==
  IF startV = 0 THEN FromInt(0)
  ELSE Mul(Sub(Div(FromInt(endV), FromInt(startV)), FromInt(1)), FromInt(100))

TotalReturn(startV, endV) ==
  Mul(Sub(Div(FromInt(endV), FromInt(startV)), FromInt(1)), FromInt(100))

(* if (p.v > peak) peak = p.v *)
NextPeak(peak, v) == IF Gt(FromInt(v), peak) THEN FromInt(v) ELSE peak

(* if (peak > 0) { dd = (peak - p.v) / peak; if (dd > maxDD) maxDD = dd } *)
NextMaxDDLast(peak, v, maxDD) ==
  IF Gt(peak, FromInt(0)) THEN Div(Sub(peak, FromInt(v)), peak) ELSE maxDD

NextMaxDDUnguarded(peak, v, maxDD) ==
  LET dd == Div(Sub(peak, FromInt(v)), peak)
  IN IF Gt(dd, maxDD) THEN dd ELSE maxDD

NextMaxDD(peak, v, maxDD) ==
  IF Gt(peak, FromInt(0))
  THEN LET dd == Div(Sub(peak, FromInt(v)), peak)
       IN IF Gt(dd, maxDD) THEN dd ELSE maxDD
  ELSE maxDD

(* for (const p of eq) { ... }, from point k on *)
RECURSIVE DrawdownFrom(_, _, _, _)
DrawdownFrom(eq, k, peak, maxDD) ==
  IF k > Len(eq) THEN maxDD
  ELSE LET p == NextPeak(peak, eq[k].v)
       IN DrawdownFrom(eq, k + 1, p, NextMaxDD(p, eq[k].v, maxDD))

RECURSIVE MaxOfValues(_, _)
MaxOfValues(eq, k) ==
  IF k = 1 THEN eq[1].v
  ELSE LET m == MaxOfValues(eq, k - 1) IN IF eq[k].v > m THEN eq[k].v ELSE m

(* let peak = -Infinity *)
InitialPeakOverallMax(eq) == FromInt(MaxOfValues(eq, Len(eq)))

InitialPeak(eq) == NegInf

(* peak after the pass has taken the first k points *)
RECURSIVE PeakAt(_, _)
PeakAt(eq, k) ==
  IF k = 0 THEN InitialPeak(eq) ELSE NextPeak(PeakAt(eq, k - 1), eq[k].v)

(* maxDD * 100 *)
MaxDrawdownPct(eq) ==
  Mul(DrawdownFrom(eq, 1, InitialPeak(eq), FromInt(0)), FromInt(100))

(* (sell.price - buy.price) * Math.min(buy.qty, sell.qty) - (buy.fee + sell.fee) *)
PnlBuyQty(buy, sell) ==
  (sell.price - buy.price) * buy.qty - (buy.fee + sell.fee)

Pnl(buy, sell) ==
  (sell.price - buy.price) * Min2(buy.qty, sell.qty) - (buy.fee + sell.fee)

(* if (pnl > 0) wins++; else losses++ *)
IsWinOrEven(pnl) == pnl >= 0

IsWin(pnl) == pnl > 0

(* while (j < trades.length && trades[j].side !== 'SELL') j++ *)
FindSellAdjacent(trades, j) ==
  IF j <= Len(trades) /\ trades[j].side = "SELL" THEN j ELSE Len(trades) + 1

RECURSIVE FindSell(_, _)
FindSell(trades, j) ==
  IF j <= Len(trades) /\ trades[j].side # "SELL"
  THEN FindSell(trades, j + 1)
  ELSE j

(* i = j, then the loop's i++ *)
NextIndexNoSkip(i, j) == i + 1

NextIndex(i, j) == j + 1

(* What the scan has done so far: the counters wins and losses, the round  *)
(* trips it scored (trips: the indexes of the BUY and the SELL, the P&L    *)
(* and the class) and the index of the BUY at which it broke off (halt, 0  *)
(* when it did not).  trips and halt are history: the code keeps only the  *)
(* counters.                                                               *)
NoScan == [wins |-> 0, losses |-> 0, trips |-> <<>>, halt |-> 0]

(* the body of  if (j < trades.length) *)
ScoreNearestBuy(acc, trades, i, j) ==
  LET pnl == Pnl(trades[j - 1], trades[j])
      win == IsWin(pnl)
  IN [acc EXCEPT !.wins = IF win THEN @ + 1 ELSE @,
                 !.losses = IF win THEN @ ELSE @ + 1,
                 !.trips = Append(@, [i |-> j - 1, j |-> j, pnl |-> pnl, win |-> win])]

Score(acc, trades, i, j) ==
  LET pnl == Pnl(trades[i], trades[j])
      win == IsWin(pnl)
  IN [acc EXCEPT !.wins = IF win THEN @ + 1 ELSE @,
                 !.losses = IF win THEN @ ELSE @ + 1,
                 !.trips = Append(@, [i |-> i, j |-> j, pnl |-> pnl, win |-> win])]

(* else break *)
BreakOffCountsLoss(acc, i) == [acc EXCEPT !.halt = i, !.losses = @ + 1]

BreakOff(acc, i) == [acc EXCEPT !.halt = i]

(* for (let i = 0; i < trades.length; i++) { ... }, from index i on *)
RECURSIVE ScanFrom(_, _, _)
ScanFrom(trades, i, acc) ==
  IF i > Len(trades) THEN acc
  ELSE IF trades[i].side # "BUY" THEN ScanFrom(trades, i + 1, acc)
  ELSE LET j == FindSell(trades, i + 1)
       IN IF j <= Len(trades)
          THEN ScanFrom(trades, NextIndex(i, j), Score(acc, trades, i, j))
          ELSE BreakOff(acc, i)

ScanOfKeepingCounters(trades) ==
  ScanFrom(trades, 1, [NoScan EXCEPT !.wins = scan.wins, !.losses = scan.losses])

ScanOf(trades) == ScanFrom(trades, 1, NoScan)

(* roundTrips > 0 ? (wins / roundTrips) * 100 : 0 *)
WinRateUnguarded(wins, roundTrips) ==
  Mul(Div(FromInt(wins), FromInt(roundTrips)), FromInt(100))

WinRate(wins, roundTrips) ==
  IF roundTrips > 0
  THEN Mul(Div(FromInt(wins), FromInt(roundTrips)), FromInt(100))
  ELSE FromInt(0)

(* data?.equity_curve ?? [] and data?.trades ?? [] *)
EquityOf(d) == IF d = NULL THEN <<>> ELSE d.equity_curve

TradesOf(d) == IF d = NULL THEN <<>> ELSE d.trades

(* the scan the stats memo runs: none when it returns early *)
StatsScan(d) ==
  IF StatsInsufficient(EquityOf(d)) THEN NoScan ELSE ScanOf(TradesOf(d))

(* the stats memo *)
StatsOf(d) ==
  LET eq == EquityOf(d)
      trades == TradesOf(d)
      s == ScanOf(trades)
      roundTrips == s.wins + s.losses
  IN IF StatsInsufficient(eq) THEN NULL
     ELSE [startV |-> eq[1].v,
           endV |-> eq[Len(eq)].v,
           totalReturn |-> TotalReturn(eq[1].v, eq[Len(eq)].v),
           maxDrawdownPct |-> MaxDrawdownPct(eq),
           tradesCount |-> Len(trades),
           roundTrips |-> roundTrips,
           winRate |-> WinRate(s.wins, roundTrips)]

---------------------------------------------------------------------------
(* chart: the SVG path memoised from data *)

W == 800

H == 300

PAD == 30

(* points.length < 2 *)
ChartInsufficientEmptyOnly(points) == Len(points) < 1

ChartInsufficient(points) == Len(points) < 2

(* Math.min(...vals) and Math.max(...vals), over the first k values *)
RECURSIVE MinVal(_, _)
MinVal(points, k) ==
  IF k = 1 THEN points[1].v
  ELSE LET m == MinVal(points, k - 1) IN IF points[k].v < m THEN points[k].v ELSE m

RECURSIVE MaxVal(_, _)
MaxVal(points, k) ==
  IF k = 1 THEN points[1].v
  ELSE LET m == MaxVal(points, k - 1) IN IF points[k].v > m THEN points[k].v ELSE m

(* max - min || 1 *)
RangeUnguarded(min, max) == FromInt(max - min)

Range(min, max) == OrOne(FromInt(max - min))

(* (W - PAD * 2) / (points.length - 1) *)
StepXPerPoint(n) == Div(FromInt(W - PAD * 2), FromInt(n))

StepX(n) == Div(FromInt(W - PAD * 2), FromInt(n - 1))

(* PAD + i * stepX, i counted from 0 *)
PointX(i, stepX) == Add(FromInt(PAD), Mul(FromInt(i), stepX))

(* PAD + (H - PAD * 2) * (1 - (p.v - min) / range) *)
PointYNotInverted(v, min, range) ==
  Add(FromInt(PAD), Mul(FromInt(H - PAD * 2), Div(FromInt(v - min), range)))

PointY(v, min, range) ==
  Add(FromInt(PAD),
      Mul(FromInt(H - PAD * 2), Sub(FromInt(1), Div(FromInt(v - min), range))))

(* `${i === 0 ? 'M' : 'L'}${x.toFixed(1)},${y.toFixed(1)}`: the command   *)
(* letter and the two numbers the element of the path reads               *)
PathElement(i, x, y) ==
  [cmd |-> IF i = 0 THEN "M" ELSE "L", x |-> ToFixed1(x), y |-> ToFixed1(y)]

(* the chart memo; d is the sequence of the elements that join(' ') puts  *)
(* in one string, '' being the empty sequence                             *)
ChartOf(d) ==
  LET points == IF d = NULL THEN <<>> ELSE d.equity_curve
      n == Len(points)
  IN IF ChartInsufficient(points)
     THEN [d |-> <<>>, W |-> W, H |-> H, min |-> 0, max |-> 0, last |-> 0]
     ELSE LET min == MinVal(points, n)
              max == MaxVal(points, n)
              range == Range(min, max)
              stepX == StepX(n)
          IN [d |-> [k \in 1..n |->
                       PathElement(k - 1, PointX(k - 1, stepX),
                                   PointY(points[k].v, min, range))],
              W |-> W, H |-> H, min |-> min, max |-> max,
              last |-> points[n].v]

(* The number the string x.toFixed(2) denotes *)
ToFixed2(x) ==
  IF x.d = 0 THEN x
  ELSE LET t == (2 * 100 * Abs(x.n) + x.d) \div (2 * x.d)
       IN Num(Sign(x.n) * t, 100)

(* {data && stats && (...)}: the statistics panel is rendered *)
StatsPanelShown(d, st) == d # NULL /\ st # NULL

(* {data?.equity_curve?.length ? (...) : null}: the chart panel is rendered *)
ChartPanelShownWhenDrawable(d) == d # NULL /\ Len(d.equity_curve) >= 2

ChartPanelShown(d) == d # NULL /\ Len(d.equity_curve) # 0

(* last equity: {chart.last.toFixed(2)} (min {chart.min.toFixed(2)} / max *)
(* {chart.max.toFixed(2)}), and the d of the path element                 *)
ChartCaption(c) ==
  [last |-> ToFixed2(FromInt(c.last)),
   min |-> ToFixed2(FromInt(c.min)),
   max |-> ToFixed2(FromInt(c.max)),
   path |-> c.d]

---------------------------------------------------------------------------
(* The responses of the backtest service.  A point's timestamp and a      *)
(* trade's date are displayed and never computed with: the records keep   *)
(* the fields the memos read.                                             *)

MaxEqLen == 4

MaxTrades == 2

MaxShapeTrades == 5

EqVals == {-1, 0, 1, 2, 3}

Sides == {"BUY", "SELL"}

Qtys == {1, 2}

Prices == {1, 3}

Fees == {0, 1}

Point(v) == [v |-> v]

Trade(side, qty, price, fee) ==
  [side |-> side, qty |-> qty, price |-> price, fee |-> fee]

Response(eq, trades) == [ticker |-> "AAPL", equity_curve |-> eq, trades |-> trades]

Curves == UNION {[1..n -> {Point(v) : v \in EqVals}] : n \in 0..MaxEqLen}

Trades == {Trade(s, q, p, f) : s \in Sides, q \in Qtys, p \in Prices, f \in Fees}

(* short ledgers of every trade *)
ValueLedgers == UNION {[1..n -> Trades] : n \in 0..MaxTrades}

(* longer ledgers of two BUYs and two SELLs *)
ShapeTrades ==
  {Trade("BUY", 1, 1, 0), Trade("BUY", 2, 3, 1),
   Trade("SELL", 2, 3, 1), Trade("SELL", 1, 1, 0)}

ShapeLedgers == UNION {[1..n -> ShapeTrades] : n \in 0..MaxShapeTrades}

Ledgers == ValueLedgers \cup ShapeLedgers

(* the examples of the specification *)
ExampleCurve == <<Point(100), Point(120), Point(80), Point(130)>>

TwoPointCurve == <<Point(100), Point(200)>>

ExampleLedger ==
  <<Trade("BUY", 10, 50, 1), Trade("SELL", 10, 60, 1),
    Trade("BUY", 5, 70, 1), Trade("SELL", 5, 65, 1)>>

NoSellLedger == <<Trade("BUY", 10, 50, 1), Trade("BUY", 5, 70, 1)>>

(* a series whose range is wide against the difference of two values *)
WideCurve == <<Point(0), Point(1), Point(5000)>>

SampleCurves == {<<>>, <<Point(2)>>, <<Point(1), Point(2)>>}

SampleLedgers ==
  {<<>>,
   <<Trade("BUY", 1, 1, 0), Trade("SELL", 1, 3, 0)>>,
   <<Trade("BUY", 2, 3, 1), Trade("BUY", 1, 1, 0), Trade("SELL", 2, 3, 1)>>}

(* every curve with a few ledgers, every ledger with a few curves, and    *)
(* the examples                                                            *)
Inputs ==
  {Response(e, t) : e \in Curves, t \in SampleLedgers}
    \cup {Response(e, t) : e \in SampleCurves, t \in Ledgers}
    \cup {Response(e, t) : e \in {ExampleCurve, TwoPointCurve, WideCurve} \cup SampleCurves,
                           t \in {ExampleLedger, NoSellLedger}}

(* the responses of the component's specification *)
Responses ==
  {Response(e, t) : e \in SampleCurves \cup {TwoPointCurve, <<Point(0), Point(3)>>},
                    t \in SampleLedgers \cup {ExampleLedger, NoSellLedger}}

Messages == {"Request failed", "bad request"}

---------------------------------------------------------------------------
(* The component *)

NoneStored == [data |-> FALSE, error |-> FALSE]

DemoInit ==
  /\ loading = FALSE
  /\ data = NULL
  /\ error = NULL
  /\ stats = StatsOf(NULL)
  /\ chart = ChartOf(NULL)
  /\ scan = StatsScan(NULL)
  /\ pending = 0
  /\ first = NULL
  /\ stored = NoneStored

(* useState(280), twice *)
DefaultWidth == 280

(* LayoutContent after its first render, before the effects of that       *)
(* render: l and r are what loadLeftSidebarState and loadRightSidebarState *)
(* returned, b the flag of the layout context, sl and sr the flags         *)
(* persisted before.                                                       *)
LayoutMounted(l, r, b, sl, sr) ==
  /\ isLeftCollapsed = l
  /\ isRightCollapsed = r
  /\ isBottomCollapsed = b
  /\ leftSidebarWidth = DefaultWidth
  /\ rightSidebarWidth = DefaultWidth
  /\ savedLeft = sl
  /\ savedRight = sr
  /\ effects = {"left", "right"}
  /\ lastAction = "mount"

Init == DemoInit /\ LayoutMounted(TRUE, TRUE, FALSE, TRUE, TRUE)

(* run, up to its await of fetch, unguarded by the button *)
RunStartUnguarded ==
  /\ pending < 2
  /\ loading' = TRUE
  /\ error' = NULL
  /\ pending' = pending + 1
  /\ stored' = NoneStored
  /\ UNCHANGED <<data, stats, chart, scan, first>>
  /\ UNCHANGED layoutVars

(* run, up to its await of fetch; the button is disabled while loading *)
RunStart ==
  /\ ~loading
  /\ loading' = TRUE
  /\ error' = NULL
  /\ pending' = pending + 1
  /\ stored' = NoneStored
  /\ UNCHANGED <<data, stats, chart, scan, first>>
  /\ UNCHANGED layoutVars

(* run, from a response that is ok: setData(json), setLoading(false), and *)
(* the render that recomputes the memos of data                            *)
ReceiveOk(json) ==
  /\ pending > 0
  /\ pending' = pending - 1
  /\ data' = json
  /\ loading' = FALSE
  /\ stats' = StatsOf(json)
  /\ chart' = ChartOf(json)
  /\ scan' = StatsScan(json)
  /\ stored' = [stored EXCEPT !.data = TRUE]
  /\ first' = IF first = NULL
              THEN [data |-> json, stats |-> StatsOf(json), chart |-> ChartOf(json),
                    others |-> FALSE, again |-> FALSE]
              ELSE [first EXCEPT !.others = @ \/ json # first.data,
                                 !.again = @ \/ (first.others /\ json = first.data)]
  /\ UNCHANGED error
  /\ UNCHANGED layoutVars

ReceiveFailKeepsLoading(msg) ==
  /\ pending > 0
  /\ pending' = pending - 1
  /\ error' = [message |-> msg]
  /\ stored' = [stored EXCEPT !.error = TRUE]
  /\ UNCHANGED <<loading, data, stats, chart, scan, first>>
  /\ UNCHANGED layoutVars

ReceiveFailClearsData(msg) ==
  /\ pending > 0
  /\ pending' = pending - 1
  /\ error' = [message |-> msg]
  /\ loading' = FALSE
  /\ data' = NULL
  /\ stats' = StatsOf(NULL)
  /\ chart' = ChartOf(NULL)
  /\ scan' = StatsScan(NULL)
  /\ stored' = [stored EXCEPT !.error = TRUE]
  /\ UNCHANGED first
  /\ UNCHANGED layoutVars

(* run, from a response that is not ok or a fetch that throws *)
ReceiveFail(msg) ==
  /\ pending > 0
  /\ pending' = pending - 1
  /\ error' = [message |-> msg]
  /\ loading' = FALSE
  /\ stored' = [stored EXCEPT !.error = TRUE]
  /\ UNCHANGED <<data, stats, chart, scan, first>>
  /\ UNCHANGED layoutVars

Next ==
  \/ RunStart
  \/ pending > 0 /\ \E json \in Responses : ReceiveOk(json)
  \/ pending > 0 /\ \E msg \in Messages : ReceiveFail(msg)

Spec == Init /\ [][Next]_vars

(* the promise of fetch settles: it resolves or it rejects *)
Settle ==
  \/ \E json \in Responses : ReceiveOk(json)
  \/ \E msg \in Messages : ReceiveFail(msg)

SpecFair == Spec /\ WF_vars(Settle)

(* The memos as functions of the response: the component awaits its first *)
(* response, which is any of Inputs.                                      *)
InitCalc ==
  /\ loading = TRUE
  /\ data = NULL
  /\ error = NULL
  /\ stats = StatsOf(NULL)
  /\ chart = ChartOf(NULL)
  /\ scan = StatsScan(NULL)
  /\ pending = 1
  /\ first = NULL
  /\ stored = NoneStored
  /\ LayoutMounted(TRUE, TRUE, FALSE, TRUE, TRUE)

NextCalc == pending > 0 /\ \E json \in Inputs : ReceiveOk(json)

SpecCalc == InitCalc /\ [][NextCalc]_vars

---------------------------------------------------------------------------
(* The layout *)

(* the widths the sidebars report through onWidthChange *)
Widths == {240, DefaultWidth, 320}

(* the flags persisted once the effects of the last render have run:       *)
(* saveLeftSidebarState(isLeftCollapsed), saveRightSidebarState(...)       *)
SavedLeftAfterEffects == IF "left" \in effects THEN isLeftCollapsed ELSE savedLeft

SavedRightAfterEffects == IF "right" \in effects THEN isRightCollapsed ELSE savedRight

(* the effects of the last render run before the next handler does *)
FlushEffects ==
  /\ savedLeft' = SavedLeftAfterEffects
  /\ savedRight' = SavedRightAfterEffects

RunEffects ==
  /\ effects # {}
  /\ FlushEffects
  /\ effects' = {}
  /\ UNCHANGED <<isLeftCollapsed, isRightCollapsed, isBottomCollapsed,
                 leftSidebarWidth, rightSidebarWidth, lastAction>>
  /\ UNCHANGED demoVars

(* setIsLeftCollapsed(b) and the render after it: the effect on            *)
(* [isLeftCollapsed] is scheduled when the flag changed                    *)
SetIsLeftCollapsed(b, name) ==
  /\ FlushEffects
  /\ isLeftCollapsed' = b
  /\ effects' = IF b # isLeftCollapsed THEN {"left"} ELSE {}
  /\ lastAction' = name
  /\ UNCHANGED <<isRightCollapsed, isBottomCollapsed, leftSidebarWidth, rightSidebarWidth>>
  /\ UNCHANGED demoVars

SetIsRightCollapsed(b, name) ==
  /\ FlushEffects
  /\ isRightCollapsed' = b
  /\ effects' = IF b # isRightCollapsed THEN {"right"} ELSE {}
  /\ lastAction' = name
  /\ UNCHANGED <<isLeftCollapsed, isBottomCollapsed, leftSidebarWidth, rightSidebarWidth>>
  /\ UNCHANGED demoVars

(* the top bar's onToggleLeft and the keyboard shortcut *)
ToggleLeft == SetIsLeftCollapsed(~isLeftCollapsed, "toggleLeft")

ToggleRight == SetIsRightCollapsed(~isRightCollapsed, "toggleRight")

(* the sidebars' onCollapse and onExpand *)
CollapseLeftToggles == SetIsLeftCollapsed(~isLeftCollapsed, "collapseLeft")

CollapseLeft == SetIsLeftCollapsed(TRUE, "collapseLeft")

ExpandLeft == SetIsLeftCollapsed(FALSE, "expandLeft")

CollapseRight == SetIsRightCollapsed(TRUE, "collapseRight")

ExpandRight == SetIsRightCollapsed(FALSE, "expandRight")

(* the layout context's toggleBottomPanel, collapseBottomPanel and         *)
(* expandBottomPanel: the flag of the context takes a value, and           *)
(* LayoutContent renders again                                             *)
SetBottom(b) ==
  /\ FlushEffects
  /\ isBottomCollapsed' = b
  /\ effects' = {}
  /\ lastAction' = "bottom"
  /\ UNCHANGED <<isLeftCollapsed, isRightCollapsed, leftSidebarWidth, rightSidebarWidth>>
  /\ UNCHANGED demoVars

(* onWidthChange={setLeftSidebarWidth}, onWidthChange={setRightSidebarWidth} *)
ResizeLeft(w) ==
  /\ FlushEffects
  /\ leftSidebarWidth' = w
  /\ effects' = {}
  /\ lastAction' = "resizeLeft"
  /\ UNCHANGED <<isLeftCollapsed, isRightCollapsed, isBottomCollapsed, rightSidebarWidth>>
  /\ UNCHANGED demoVars

ResizeRight(w) ==
  /\ FlushEffects
  /\ rightSidebarWidth' = w
  /\ effects' = {}
  /\ lastAction' = "resizeRight"
  /\ UNCHANGED <<isLeftCollapsed, isRightCollapsed, isBottomCollapsed, leftSidebarWidth>>
  /\ UNCHANGED demoVars

(* the insets of the main area *)
MainLeftInset == IF ~isLeftCollapsed THEN leftSidebarWidth ELSE 0

MainRightInset == IF ~isRightCollapsed THEN rightSidebarWidth ELSE 0

MainBottomInset(bottomPanelHeight) == IF ~isBottomCollapsed THEN bottomPanelHeight ELSE 0

(* The layout mounts with whatever the storage service loads, over         *)
(* whatever was persisted before, and whatever the layout context holds.   *)
InitLayout ==
  /\ DemoInit
  /\ \E l, r, b, sl, sr \in BOOLEAN : LayoutMounted(l, r, b, sl, sr)

NextLayout ==
  \/ RunEffects
  \/ ToggleLeft
  \/ ToggleRight
  \/ CollapseLeft
  \/ ExpandLeft
  \/ CollapseRight
  \/ ExpandRight
  \/ \E b \in BOOLEAN : SetBottom(b)
  \/ \E w \in Widths : ResizeLeft(w)
  \/ \E w \in Widths : ResizeRight(w)

SpecLayout == InitLayout /\ [][NextLayout]_vars

---------------------------------------------------------------------------
(* Claims about the memos, checked under SpecCalc *)

Received == data # NULL

Eq == EquityOf(data)

Ledger == TradesOf(data)

(* C1: when the equity series has fewer than 2 points, whatever the      *)
(* ledger, stats is null and chart is the empty path with min = max =    *)
(* last = 0.                                                             *)
C1_InsufficientData ==
  (Received /\ Len(Eq) < 2) =>
     /\ stats = NULL
     /\ chart.d = <<>>
     /\ chart.min = 0 /\ chart.max = 0 /\ chart.last = 0

C1_Witness ==
  /\ Received /\ Len(Eq) = 1 /\ Len(Ledger) > 0
  /\ stats = NULL /\ chart.d = <<>> /\ chart.last = 0 /\ Eq[1].v # 0

(* C2: every round trip the scan scored has P&L (sell.price - buy.price) *)
(* * min(buy.qty, sell.qty) - (buy.fee + sell.fee), is a win exactly     *)
(* when its P&L > 0 and a loss otherwise, and the counters count these   *)
(* classes; the example ledger gives P&L 98 and -27, 2 round trips and   *)
(* win rate 50.                                                          *)
C2_RoundTripPnl ==
  LET trips == scan.trips
      K == 1..Len(trips)
  IN /\ \A k \in K :
          LET buy == Ledger[trips[k].i]
              sell == Ledger[trips[k].j]
              qty == IF buy.qty <= sell.qty THEN buy.qty ELSE sell.qty
          IN /\ trips[k].pnl = (sell.price - buy.price) * qty - (buy.fee + sell.fee)
             /\ trips[k].win <=> trips[k].pnl > 0
     /\ scan.wins = Cardinality({k \in K : trips[k].pnl > 0})
     /\ scan.losses = Cardinality({k \in K : trips[k].pnl <= 0})
     /\ (stats # NULL /\ Ledger = ExampleLedger) =>
          /\ Len(trips) = 2
          /\ trips[1].pnl = 98 /\ trips[1].win
          /\ trips[2].pnl = -27 /\ ~trips[2].win
          /\ stats.roundTrips = 2
          /\ stats.winRate = FromInt(50)

C2_Witness ==
  /\ stats # NULL
  /\ \E k \in 1..Len(scan.trips) :
        /\ scan.trips[k].pnl = 0 /\ ~scan.trips[k].win
        /\ Ledger[scan.trips[k].i].qty # Ledger[scan.trips[k].j].qty
  /\ scan.losses = 1 /\ scan.wins = 0

(* C3: a scored round trip pairs a BUY at i with the nearest SELL after  *)
(* it (every trade strictly between them is a BUY); the scan resumes     *)
(* right after that SELL, so the next round trip starts at the first BUY *)
(* after it and the trades before the first round trip are SELLs; no     *)
(* trade takes part in two round trips, and a trade strictly between a   *)
(* BUY and its SELL takes part in none.                                  *)
C3_GreedyPairing ==
  LET trips == scan.trips
      K == 1..Len(trips)
      In(m, k) == trips[k].i = m \/ trips[k].j = m
  IN /\ \A k \in K :
          /\ trips[k].i \in 1..Len(Ledger) /\ trips[k].j \in 1..Len(Ledger)
          /\ trips[k].i < trips[k].j
          /\ Ledger[trips[k].i].side = "BUY"
          /\ Ledger[trips[k].j].side = "SELL"
          /\ \A m \in (trips[k].i + 1)..(trips[k].j - 1) :
                /\ Ledger[m].side = "BUY"
                /\ \A k2 \in K : ~In(m, k2)
          /\ LET from == IF k = 1 THEN 1 ELSE trips[k - 1].j + 1
             IN /\ from <= trips[k].i
                /\ \A m \in from..(trips[k].i - 1) : Ledger[m].side = "SELL"
     /\ \A m \in 1..Len(Ledger) : Cardinality({k \in K : In(m, k)}) <= 1

C3_Witness ==
  /\ stats # NULL
  /\ \E k \in 1..Len(scan.trips) :
        /\ scan.trips[k].i > 1
        /\ scan.trips[k].j > scan.trips[k].i + 1

(* index of the last SELL of a ledger, 0 when it has none *)
LastSell(t) ==
  IF \E m \in 1..Len(t) : t[m].side = "SELL"
  THEN CHOOSE m \in 1..Len(t) :
         /\ t[m].side = "SELL"
         /\ \A m2 \in (m + 1)..Len(t) : t[m2].side # "SELL"
  ELSE 0

(* C4: the scan breaks off exactly when it comes to a BUY with no SELL   *)
(* after it, which is the trade after the last SELL when the ledger ends *)
(* in BUYs; the counters and round trips are then those of the ledger    *)
(* cut before that BUY, no trade from that BUY on is scored, and stats   *)
(* is still a record.  A ledger with no SELL gives roundTrips = 0 and    *)
(* winRate = 0.                                                          *)
C4_UnterminatedRoundTrip ==
  LET n == Len(Ledger)
      ends == n > 0 /\ Ledger[n].side = "BUY"
      before == ScanOf(SubSeq(Ledger, 1, scan.halt - 1))
  IN (stats # NULL) =>
       /\ scan.halt = IF ends THEN LastSell(Ledger) + 1 ELSE 0
       /\ scan.halt > 0 =>
            /\ scan.wins = before.wins /\ scan.losses = before.losses
            /\ scan.trips = before.trips
            /\ \A k \in 1..Len(scan.trips) : scan.trips[k].j < scan.halt
            /\ stats.roundTrips = Len(scan.trips)
            /\ stats.tradesCount = n
       /\ LastSell(Ledger) = 0 =>
            stats.roundTrips = 0 /\ stats.winRate = FromInt(0)
       /\ Ledger = NoSellLedger => scan.halt = 1

C4_Witness ==
  /\ stats # NULL
  /\ scan.halt = 3 /\ Len(scan.trips) = 1 /\ scan.wins = 1
  /\ stats.roundTrips = 1

(* C5: roundTrips = wins + losses; winRate is 100 * wins / roundTrips    *)
(* when roundTrips > 0 and 0 when roundTrips = 0; so winRate is a finite *)
(* number from 0 to 100.                                                 *)
C5_WinRate ==
  (stats # NULL) =>
     /\ stats.roundTrips = scan.wins + scan.losses
     /\ stats.roundTrips > 0 => stats.winRate = Num(100 * scan.wins, stats.roundTrips)
     /\ stats.roundTrips = 0 => stats.winRate = FromInt(0)
     /\ IsFinite(stats.winRate)
     /\ ~Gt(FromInt(0), stats.winRate) /\ ~Gt(stats.winRate, FromInt(100))

C5_Witness ==
  /\ stats # NULL /\ stats.roundTrips = 0 /\ stats.tradesCount > 0
  /\ stats.winRate = FromInt(0)

(* running peak max(v_1 .. v_k) of the series, as the claims state it *)
RunningPeak(eq, k) ==
  CHOOSE m \in {eq[i].v : i \in 1..k} : \A i \in 1..k : eq[i].v <= m

(* 100 * (P_k - v_k) / P_k, for a point whose running peak is > 0 *)
DrawdownPctAt(eq, k) ==
  Num(100 * (RunningPeak(eq, k) - eq[k].v), RunningPeak(eq, k))

(* 100 times the largest (P_k - v_k) / P_k over the points with P_k > 0, *)
(* 0 when there is none                                                  *)
LargestDrawdownPct(eq) ==
  LET K == {k \in 1..Len(eq) : RunningPeak(eq, k) > 0}
  IN IF K = {} THEN FromInt(0)
     ELSE LET best == CHOOSE k \in K :
                        \A k2 \in K : ~Gt(DrawdownPctAt(eq, k2), DrawdownPctAt(eq, k))
          IN DrawdownPctAt(eq, best)

(* C6: with at least 2 points, maxDrawdownPct is 100 times the largest   *)
(* (P_k - v_k) / P_k over the points whose running peak P_k is > 0, and  *)
(* 0 when there is none; the peak of the forward pass is P_k once a      *)
(* point is taken.  For [100, 120, 80, 130] the peaks are 100, 120, 120, *)
(* 130 and the result is 100 * (40 / 120).                               *)
C6_MaxDrawdown ==
  (stats # NULL) =>
     /\ stats.maxDrawdownPct = LargestDrawdownPct(Eq)
     /\ \A k \in 1..Len(Eq) : PeakAt(Eq, k) = FromInt(RunningPeak(Eq, k))
     /\ Eq = ExampleCurve =>
          /\ [k \in 1..4 |-> PeakAt(Eq, k)] =
               <<FromInt(100), FromInt(120), FromInt(120), FromInt(130)>>
          /\ stats.maxDrawdownPct = Num(100 * 40, 120)

C6_Witness ==
  /\ stats # NULL /\ Len(Eq) = 4
  /\ RunningPeak(Eq, 1) < 0 /\ RunningPeak(Eq, 3) > 0
  /\ Gt(DrawdownPctAt(Eq, 3), FromInt(0))
  /\ Gt(DrawdownPctAt(Eq, 4), DrawdownPctAt(Eq, 3))
  /\ stats.maxDrawdownPct = DrawdownPctAt(Eq, 4)

NonDecreasing(eq) == \A k \in 1..(Len(eq) - 1) : eq[k].v <= eq[k + 1].v

(* C7: for a non-decreasing series of at least 2 points, of any sign,    *)
(* maxDrawdownPct is exactly 0.                                          *)
C7_MonotoneNoDrawdown ==
  (Received /\ Len(Eq) >= 2 /\ NonDecreasing(Eq)) =>
     stats # NULL /\ stats.maxDrawdownPct = FromInt(0)

C7_Witness ==
  /\ stats # NULL /\ NonDecreasing(Eq)
  /\ Eq[1].v < 0 /\ Eq[Len(Eq)].v > 1 /\ Len(Eq) >= 3
  /\ stats.maxDrawdownPct = FromInt(0)

(* C8: with at least 2 points and a first value of 0, stats is a record  *)
(* whose totalReturn is not finite (NaN when the last value is 0 too,    *)
(* else an infinity of the last value's sign) and whose other fields are *)
(* what they are for any input.                                          *)
C8_ZeroStartValue ==
  (Received /\ Len(Eq) >= 2 /\ Eq[1].v = 0) =>
     /\ stats # NULL
     /\ ~IsFinite(stats.totalReturn)
     /\ stats.totalReturn =
          [n |-> Sign(Eq[Len(Eq)].v), d |-> 0]
     /\ stats.startV = 0
     /\ stats.endV = Eq[Len(Eq)].v
     /\ stats.maxDrawdownPct = LargestDrawdownPct(Eq)
     /\ stats.tradesCount = Len(Ledger)
     /\ stats.roundTrips = Len(scan.trips)
     /\ stats.winRate =
          IF Len(scan.trips) = 0 THEN FromInt(0)
          ELSE Num(100 * Cardinality({k \in 1..Len(scan.trips) : scan.trips[k].pnl > 0}),
                   Len(scan.trips))

C8_Witness ==
  /\ stats # NULL /\ stats.startV = 0 /\ stats.endV < 0
  /\ stats.totalReturn = NegInf
  /\ stats.roundTrips > 0

(* padding + i * (canvasWidth - 2 * padding) / (n - 1), for the point at *)
(* position k = i + 1 of n                                               *)
ExactX(k, n) == Num(PAD * (n - 1) + (k - 1) * (W - 2 * PAD), n - 1)

(* padding + (canvasHeight - 2 * padding) * (1 - (v - valueMin) / range) *)
ExactY(v, lo, hi) ==
  LET range == IF hi = lo THEN 1 ELSE hi - lo
  IN Num(PAD * range + (H - 2 * PAD) * (range - (v - lo)), range)

(* r is a number of tenths, and none is nearer to the finite x *)
NearestTenth(r, x) ==
  /\ r.d \in {1, 2, 5, 10}
  /\ 20 * Abs(r.n * x.d - x.n * r.d) <= x.d * r.d

LeastValue(eq) == CHOOSE m \in {eq[i].v : i \in 1..Len(eq)} : \A i \in 1..Len(eq) : m <= eq[i].v

GreatestValue(eq) == RunningPeak(eq, Len(eq))

(* C9 as stated: the path has n points in input order and point i has   *)
(* exactly x = padding + i * (canvasWidth - 2 * padding) / (n - 1) and  *)
(* y = padding + (canvasHeight - 2 * padding) * (1 - (v_i - valueMin) / *)
(* range).                                                              *)
C9_ExactCoordinates ==
  (Received /\ Len(Eq) >= 2) =>
     /\ Len(chart.d) = Len(Eq)
     /\ \A k \in 1..Len(Eq) :
          /\ chart.d[k].x = ExactX(k, Len(Eq))
          /\ chart.d[k].y = ExactY(Eq[k].v, LeastValue(Eq), GreatestValue(Eq))

(* C9, amended: the path has n points in input order, the first a move  *)
(* and the others lines; the x and y of point i are the values of the   *)
(* two formulas rounded to one decimal; the first x is padding and the  *)
(* last is canvasWidth - padding; chart reports the least, greatest and *)
(* last value.  [100, 200] gives the path from (30, 270) to (770, 30).  *)
C9_RoundedCoordinates ==
  (Received /\ Len(Eq) >= 2) =>
     /\ Len(chart.d) = Len(Eq)
     /\ chart.W = 800 /\ chart.H = 300
     /\ chart.min = LeastValue(Eq) /\ chart.max = GreatestValue(Eq)
     /\ chart.last = Eq[Len(Eq)].v
     /\ \A k \in 1..Len(Eq) :
          /\ chart.d[k].cmd = IF k = 1 THEN "M" ELSE "L"
          /\ IsFinite(chart.d[k].x) /\ IsFinite(chart.d[k].y)
          /\ NearestTenth(chart.d[k].x, ExactX(k, Len(Eq)))
          /\ NearestTenth(chart.d[k].y,
                          ExactY(Eq[k].v, LeastValue(Eq), GreatestValue(Eq)))
     /\ chart.d[1].x = FromInt(PAD)
     /\ chart.d[Len(Eq)].x = FromInt(W - PAD)
     /\ Eq = TwoPointCurve =>
          chart.d = <<[cmd |-> "M", x |-> FromInt(30), y |-> FromInt(270)],
                      [cmd |-> "L", x |-> FromInt(770), y |-> FromInt(30)]>>

C9_Witness ==
  /\ Received /\ Len(Eq) = 4 /\ Len(chart.d) = 4
  /\ chart.d[2].x = Num(2767, 10)
  /\ chart.d[3].x = Num(5233, 10)
  /\ chart.d[2].y # chart.d[3].y

(* C10: for a series of at least 2 equal values the range is taken as 1, *)
(* every coordinate is finite and every point has y = padding + drawable *)
(* height = 270, with min = max = that value.                            *)
C10_FlatSeries ==
  (Received /\ Len(Eq) >= 2 /\ \A k \in 1..Len(Eq) : Eq[k].v = Eq[1].v) =>
     /\ Range(chart.min, chart.max) = FromInt(1)
     /\ chart.min = Eq[1].v /\ chart.max = Eq[1].v
     /\ Len(chart.d) = Len(Eq)
     /\ \A k \in 1..Len(chart.d) :
          /\ IsFinite(chart.d[k].x)
          /\ chart.d[k].y = FromInt(PAD + (H - 2 * PAD))
          /\ chart.d[k].y = FromInt(270)

C10_Witness ==
  /\ Received /\ Len(Eq) = 3 /\ Len(chart.d) = 3
  /\ Eq[1].v = -1 /\ Eq[2].v = -1 /\ Eq[3].v = -1
  /\ chart.min = -1 /\ chart.max = -1
  /\ \A k \in 1..3 : chart.d[k].y = FromInt(270)

InDrawingArea(pt) ==
  /\ IsFinite(pt.x) /\ IsFinite(pt.y)
  /\ ~Gt(FromInt(PAD), pt.x) /\ ~Gt(pt.x, FromInt(W - PAD))
  /\ ~Gt(FromInt(PAD), pt.y) /\ ~Gt(pt.y, FromInt(H - PAD))

(* the points with the greatest value have y = padding and those with    *)
(* the least have y = canvasHeight - padding, when the values differ     *)
ExtremesOnEdges ==
  LeastValue(Eq) # GreatestValue(Eq) =>
     \A k \in 1..Len(Eq) :
        /\ Eq[k].v = GreatestValue(Eq) => chart.d[k].y = FromInt(PAD)
        /\ Eq[k].v = LeastValue(Eq) => chart.d[k].y = FromInt(H - PAD)

RECURSIVE SkippingRoundTrips(_, _)
SkippingRoundTrips(t, i) ==
  IF i > Len(t) THEN 0
  ELSE IF t[i].side # "BUY" THEN SkippingRoundTrips(t, i + 1)
  ELSE LET j == FindSell(t, i + 1)
       IN IF j <= Len(t)
          THEN 1 + SkippingRoundTrips(t, NextIndex(i, j))
          ELSE SkippingRoundTrips(t, i + 1)

HaltingRoundTrips(t) == ScanOf(t).wins + ScanOf(t).losses

(* C14 as stated: there is a ledger on which the scan that breaks off    *)
(* reports fewer round trips than the scan that skips the unmatched BUY  *)
(* and continues.                                                        *)
(* The ledgers searched are those of the responses and the one received. *)
C14_HaltUndercounts ==
  \E t \in Ledgers \cup SampleLedgers \cup (IF Received THEN {Ledger} ELSE {}) :
     HaltingRoundTrips(t) < SkippingRoundTrips(t, 1)

(* C14, amended: breaking off loses nothing.  On every ledger stats      *)
(* reports the round trips the skipping scan would report, because the   *)
(* trades from the BUY at which the scan breaks off are all BUYs.        *)
C14_HaltLosesNothing ==
  (stats # NULL) =>
     /\ stats.roundTrips = SkippingRoundTrips(Ledger, 1)
     /\ scan.halt > 0 =>
          \A m \in scan.halt..Len(Ledger) : Ledger[m].side = "BUY"

C14_Witness ==
  /\ stats # NULL
  /\ scan.halt > 1 /\ scan.halt < Len(Ledger)
  /\ stats.roundTrips >= 1
  /\ stats.roundTrips = SkippingRoundTrips(Ledger, 1)

(* positions of a SELL that follows a BUY *)
BuySellSteps(t) ==
  {j \in 2..Len(t) : t[j].side = "SELL" /\ t[j - 1].side = "BUY"}

CountSide(t, side) == Cardinality({m \in 1..Len(t) : t[m].side = side})

(* C15: roundTrips is the number of positions j with a SELL at j and a   *)
(* BUY at j - 1; the SELL of every round trip is such a position and its *)
(* BUY, whose price, quantity and fee enter the P&L, is the first BUY of *)
(* the run of BUYs ending at j - 1; so roundTrips <= min(BUYs, SELLs) <= *)
(* floor(tradeCount / 2).                                                *)
C15_RunsOfBuys ==
  (stats # NULL) =>
     /\ stats.roundTrips = Cardinality(BuySellSteps(Ledger))
     /\ {scan.trips[k].j : k \in 1..Len(scan.trips)} = BuySellSteps(Ledger)
     /\ \A k \in 1..Len(scan.trips) :
          LET i == scan.trips[k].i
              j == scan.trips[k].j
              buy == Ledger[i]
              sell == Ledger[j]
          IN /\ \A m \in i..(j - 1) : Ledger[m].side = "BUY"
             /\ i = 1 \/ Ledger[i - 1].side = "SELL"
             /\ scan.trips[k].pnl =
                  (sell.price - buy.price) * Min2(buy.qty, sell.qty)
                    - (buy.fee + sell.fee)
     /\ stats.roundTrips <= Min2(CountSide(Ledger, "BUY"), CountSide(Ledger, "SELL"))
     /\ Min2(CountSide(Ledger, "BUY"), CountSide(Ledger, "SELL"))
          <= stats.tradesCount \div 2

C15_Witness ==
  /\ stats # NULL
  /\ \E k \in 1..Len(scan.trips) :
        LET i == scan.trips[k].i
            j == scan.trips[k].j
        IN /\ j > i + 1
           /\ scan.trips[k].pnl > 0
           /\ (Ledger[j].price - Ledger[j - 1].price)
                 * Min2(Ledger[j - 1].qty, Ledger[j].qty)
                 - (Ledger[j - 1].fee + Ledger[j].fee) < 0

(* C16: with at least 2 points maxDrawdownPct is a number >= 0; it is    *)
(* <= 100 when every value is >= 0, 0 when no value is > 0, and > 100    *)
(* when a value below 0 comes at or after a positive value.              *)
C16_DrawdownRange ==
  (stats # NULL) =>
     /\ IsFinite(stats.maxDrawdownPct)
     /\ ~Gt(FromInt(0), stats.maxDrawdownPct)
     /\ (\A k \in 1..Len(Eq) : Eq[k].v >= 0) =>
           ~Gt(stats.maxDrawdownPct, FromInt(100))
     /\ (\A k \in 1..Len(Eq) : Eq[k].v <= 0) =>
           stats.maxDrawdownPct = FromInt(0)
     /\ (\E k \in 1..Len(Eq) : Eq[k].v < 0 /\ RunningPeak(Eq, k) > 0) =>
           Gt(stats.maxDrawdownPct, FromInt(100))

C16_Witness ==
  /\ stats # NULL /\ Len(Eq) >= 3
  /\ Eq[1].v = 0 /\ RunningPeak(Eq, 2) > 0 /\ Eq[3].v < 0
  /\ Gt(stats.maxDrawdownPct, FromInt(100))

(* C19: for a received result of exactly one point the statistics panel  *)
(* is not rendered (stats is null), the chart panel is rendered, and its *)
(* caption reads last, min and max 0 over an empty path, whatever the    *)
(* value of the point.                                                   *)
C19_SinglePoint ==
  (Received /\ Len(Eq) = 1) =>
     /\ stats = NULL
     /\ ~StatsPanelShown(data, stats)
     /\ ChartPanelShown(data)
     /\ ChartCaption(chart) =
          [last |-> FromInt(0), min |-> FromInt(0), max |-> FromInt(0), path |-> <<>>]

C19_Witness ==
  /\ Received /\ Len(Eq) = 1 /\ Eq[1].v = 2
  /\ ChartPanelShown(data) /\ ~StatsPanelShown(data, stats)
  /\ ChartCaption(chart).last = FromInt(0)

C13_SecondRequestWhileOutstanding == pending > 0 => ENABLED RunStart

(* C13, amended: while a request is outstanding the run action cannot    *)
(* issue another one (the button is disabled while loading), so at most  *)
(* one request is outstanding and requests never overlap.                *)
C13_NoOverlap ==
  /\ pending \in {0, 1}
  /\ loading <=> pending = 1
  /\ pending > 0 => ~ENABLED RunStart
  /\ pending = 0 => ENABLED RunStart

C13_Witness == pending = 1 /\ loading /\ Received /\ ~ENABLED RunStart

RunOutcome ==
  /\ stored.data => ~stored.error /\ data # NULL
  /\ stored.error => ~stored.data /\ error # NULL
  /\ loading => stored = NoneStored
  /\ ~loading => stored # NoneStored \/ (data = NULL /\ error = NULL)

(* C17: every started run finishes (loading leads to not loading, if the *)
(* request settles); loading is true exactly while the request is        *)
(* outstanding; and a run that finished has stored exactly one of the    *)
(* data and an error, a run in progress neither.                         *)
C17_RunFinishes ==
  /\ [](loading <=> pending = 1)
  /\ [](RunOutcome)
  /\ [][loading /\ ~loading' => stored'.data # stored'.error]_vars
  /\ (loading ~> ~loading)

C17_Witness ==
  /\ ~loading /\ pending = 0
  /\ stored.error /\ ~stored.data
  /\ error = [message |-> "Request failed"]

FailureStep == stored'.error /\ ~stored.error

SuccessStep == stored'.data /\ ~stored.data

(* C18: starting a run clears the error and keeps the data; a failure    *)
(* sets the error and keeps the data, its statistics and its chart, so   *)
(* the panels shown stay shown; a success leaves error null.             *)
C18_FailureKeepsResult ==
  /\ [][/\ (~loading /\ loading') =>
              /\ error' = NULL
              /\ data' = data /\ stats' = stats /\ chart' = chart
        /\ FailureStep =>
              /\ error' # NULL
              /\ data' = data /\ stats' = stats /\ chart' = chart
              /\ StatsPanelShown(data', stats') = StatsPanelShown(data, stats)
              /\ ChartPanelShown(data') = ChartPanelShown(data)
        /\ SuccessStep => error' = NULL]_vars
  /\ []((~loading /\ stored.data) => error = NULL)

C18_Witness ==
  /\ ~loading /\ stored.error
  /\ Received /\ StatsPanelShown(data, stats) /\ ChartPanelShown(data)
  /\ error # NULL

LayoutSettled ==
  /\ effects = {} => savedLeft = isLeftCollapsed /\ savedRight = isRightCollapsed
  /\ MainLeftInset = 0 <=> isLeftCollapsed
  /\ MainRightInset = 0 <=> isRightCollapsed
  /\ ~isLeftCollapsed => MainLeftInset = leftSidebarWidth
  /\ ~isRightCollapsed => MainRightInset = rightSidebarWidth

LeftOnly == UNCHANGED <<isRightCollapsed, isBottomCollapsed>>

RightOnly == UNCHANGED <<isLeftCollapsed, isBottomCollapsed>>

====
